---- MODULE Spec2Model ----
(***************************************************************************)
(* Model of rocket-diesel: the Database fairing (src/src/database.rs), the *)
(* Connection cell (src/src/connection.rs), the LockedConnection handle    *)
(* (src/src/locked_connection.rs), Settings (src/src/settings.rs) and the  *)
(* Error type (src/src/error.rs).                                          *)
(*                                                                         *)
(* Threads call the three entry points of a shared Database (and its       *)
(* clones, which share both Arcs): the request hook on_request, the public *)
(* initialized() query and interact().  Every step that takes the Cell     *)
(* mutex or the configuration RwLock is one action; a step that only       *)
(* locks, reads or writes and unlocks is atomic, while interact keeps the  *)
(* mutex across the closure and therefore spans several actions.           *)
(***************************************************************************)
EXTENDS Naturals, FiniteSets, Sequences, TLC

\* ---------------------------------------------------------------- bounds
NThreads == 2
MaxCalls == 3
MaxReads == 3
MaxConns == 2

Threads == 1 .. NThreads

\* ------------------------------------------------------------ error model
ErrorKinds == {"FormatError", "MissingValue", "UnimplementedFormat", "Diesel", "Other"}

ErrorKind_as_str(kind) ==
    CASE kind = "FormatError"         -> "format_error"
      [] kind = "MissingValue"        -> "missing_value"
      [] kind = "UnimplementedFormat" -> "unimplemented_format"
      [] kind = "Diesel"              -> "diesel"
      [] kind = "Other"               -> "other"

\* Error::from(kind): Repr::Simple, no payload.
Error_from(kind) == [repr |-> "Simple", kind |-> kind, error |-> "-"]

\* Error::new(kind, payload): Repr::Custom, the payload is kept by its description.
Error_new(kind, payload) == [repr |-> "Custom", kind |-> kind, error |-> payload]

\* Error_kind that keeps the kind of a Simple error only.
Error_kind_simple(e) == IF e.repr = "Simple" THEN e.kind ELSE "Other"

\* Error::kind
Error_kind(e) == e.kind

\* Payloads of Error::new, each a Box<dyn Error>: strings (turned into a boxed
\* error that describes and displays itself as the string) and one error
\* value, diesel::result::Error::NotFound, whose description() and Display
\* differ.
Payloads == {"test error", "diesel::result::Error::NotFound"}

\* <dyn Error>::description of a payload.
Payload_description(payload) ==
    CASE payload = "diesel::result::Error::NotFound" -> "Record not found"
      [] OTHER -> payload

\* <dyn Error as Display>::fmt of a payload.
Payload_display(payload) ==
    CASE payload = "diesel::result::Error::NotFound" -> "NotFound"
      [] OTHER -> payload

\* Error_description that never asks the payload.
Error_description_kind(e) == ErrorKind_as_str(e.kind)

\* <Error as error::Error>::description
Error_description(e) ==
    IF e.repr = "Simple" THEN ErrorKind_as_str(Error_kind(e))
    ELSE Payload_description(e.error)

\* <Error as fmt::Display>::fmt
Error_display(e) ==
    IF e.repr = "Custom" THEN Payload_display(e.error)
    ELSE ErrorKind_as_str(e.kind)

\* Option<T>: None, or Some(x); is_some as in the source.
None == << >>
Some(x) == << x >>
is_some(o) == Len(o) > 0
unwrap(o) == o[1]

\* Result<T>: Ok(value) or Err(error); a panic unwinding out of the call is
\* recorded as a third outcome so that it can be told from a returned Err.
Ok(v) == [status |-> "Ok", value |-> v, err |-> Error_from("Other")]
Err(e) == [status |-> "Err", value |-> "-", err |-> e]
Panicked == [status |-> "Panic", value |-> "-", err |-> Error_from("Other")]
Pending == [status |-> "Pending", value |-> "-", err |-> Error_from("Other")]

is_ok(r) == r.status = "Ok"
is_err(r) == r.status = "Err"

\* Result<bool>::unwrap_or(default)
unwrap_or(r, default) == IF is_ok(r) THEN r.value ELSE default

\* ------------------------------------------------------------------ urls
\* Raw strings the configuration may hold under url, and what
\* Url::parse makes of each: the scheme, or a parse error.
RawUrls == {"mysql://u@h/db", "postgres://u@h/db", "postgresql://u@h/db",
            "sqlite://h/db.sqlite", "http://h/db", "not a url"}

Url_parse(raw) ==
    CASE raw = "mysql://u@h/db"       -> Ok("mysql")
      [] raw = "postgres://u@h/db"    -> Ok("postgres")
      [] raw = "postgresql://u@h/db"  -> Ok("postgresql")
      [] raw = "sqlite://h/db.sqlite" -> Ok("sqlite")
      [] raw = "http://h/db"          -> Ok("http")
      [] OTHER                        -> Err(Error_new("Other", "relative URL without a base"))

\* Settings_new that reports a string that is no url as a FormatError.
Settings_new_format(url) ==
    LET parsed == Url_parse(url) IN
    IF is_ok(parsed) THEN Ok(parsed.value)
    ELSE Err(Error_new("FormatError", Error_description(parsed.err)))

\* Settings::new: the Settings are kept by the scheme of their url.
Settings_new(url) ==
    LET parsed == Url_parse(url) IN
    IF is_ok(parsed) THEN Ok(parsed.value)
    ELSE Err(Error_new("Other", Error_description(parsed.err)))

\* The configuration handed over by the request guard: whether it has a url
\* key, whether that value is a string, and the string.
Configurations ==
    { [has_url |-> FALSE, is_str |-> FALSE, url |-> "-"],
      [has_url |-> TRUE,  is_str |-> FALSE, url |-> "-"] }
    \cup { [has_url |-> TRUE, is_str |-> TRUE, url |-> u] : u \in RawUrls }

\* settings that falls back to a default url when no configuration is stored.
settings_default(guard) ==
    IF ~is_some(guard)
    THEN Settings_new("sqlite://h/db.sqlite")
    ELSE IF ~unwrap(guard).has_url
    THEN Err(Error_new("MissingValue", "no url value in configuration"))
    ELSE IF ~unwrap(guard).is_str
    THEN Err(Error_new("FormatError", "invalid format for url in configuration."))
    ELSE Settings_new(unwrap(guard).url)

\* settings with the kinds of the two errors on the url key exchanged.
settings_swapped(guard) ==
    IF ~is_some(guard)
    THEN Err(Error_new("Other", "no configuration available"))
    ELSE IF ~unwrap(guard).has_url
    THEN Err(Error_new("FormatError", "no url value in configuration"))
    ELSE IF ~unwrap(guard).is_str
    THEN Err(Error_new("MissingValue", "invalid format for url in configuration."))
    ELSE Settings_new(unwrap(guard).url)

\* Database::settings, on the content read under the RwLock read guard.
settings(guard) ==
    IF ~is_some(guard)
    THEN Err(Error_new("Other", "no configuration available"))
    ELSE IF ~unwrap(guard).has_url
    THEN Err(Error_new("MissingValue", "no url value in configuration"))
    ELSE IF ~unwrap(guard).is_str
    THEN Err(Error_new("FormatError", "invalid format for url in configuration."))
    ELSE Settings_new(unwrap(guard).url)

\* ------------------------------------------------------- backend dispatch
Backends == {"Mysql", "Pg", "Sqlite"}

\* BackendOf with a wildcard arm that falls back to a default backend.
BackendOf_default(scheme) ==
    CASE scheme = "mysql"                      -> "Mysql"
      [] scheme \in {"postgres", "postgresql"} -> "Pg"
      [] scheme = "sqlite"                     -> "Sqlite"
      [] OTHER                                 -> "Mysql"

\* The match on settings.url().scheme() shared by initialize and lock:
\* the backend a scheme selects, or Unknown for the wildcard arm.
BackendOf(scheme) ==
    CASE scheme = "mysql"                      -> "Mysql"
      [] scheme \in {"postgres", "postgresql"} -> "Pg"
      [] scheme = "sqlite"                     -> "Sqlite"
      [] OTHER                                 -> "Unknown"

\* Box<dyn Any>::downcast_mut::<T>(): succeeds when the boxed value is a T.
downcast_mut(boxed, backend) == boxed.type = backend

\* Dispatch with the arms of Pg and Sqlite exchanged.
Dispatch_swapped(conn) ==
    CASE conn = "Mysql"  -> "mysql_f"
      [] conn = "Pg"     -> "sqlite_f"
      [] conn = "Sqlite" -> "pg_f"
      [] OTHER           -> "unimplemented"

\* The match in interact on guard.conn_mut(): the closure that is called.
Dispatch(conn) ==
    CASE conn = "Mysql"  -> "mysql_f"
      [] conn = "Pg"     -> "pg_f"
      [] conn = "Sqlite" -> "sqlite_f"
      [] OTHER           -> "unimplemented"

Closures == {"mysql_f", "pg_f", "sqlite_f"}

\* locked_connection::Connection: the variant and, for the three backends,
\* the connection the box points at (0 for Unknown, which has no field).
Connection_default == [variant |-> "Unknown", conn |-> 0]

LockedConnections ==
    {Connection_default} \cup [variant : Backends, conn : 1 .. MaxConns]

is_unknown(c) == c.variant = "Unknown"
is_mysql(c) == c.variant = "Mysql"
is_pg(c) == c.variant = "Pg"
is_sqlite(c) == c.variant = "Sqlite"

\* Connection_eq as a derived PartialEq would be: variant and field compared.
Connection_eq_derived(a, b) == a = b

\* <Connection as PartialEq>::eq
Connection_eq(a, b) ==
    \/ (is_unknown(a) /\ is_unknown(b))
    \/ (is_mysql(a) /\ is_mysql(b))
    \/ (is_pg(a) /\ is_pg(b))
    \/ (is_sqlite(a) /\ is_sqlite(b))

\* A Database value: the two Arcs it holds, each named by its allocation.
\* Database::default allocates both; this is the fairing given to attach.
Database_default == [configuration |-> 1, database |-> 1]

\* A Database built anew instead of cloned: two other allocations.
Database_clone_fresh(db) == [configuration |-> db.configuration + 1, database |-> db.database + 1]

\* #[derive(Clone)] for Database: Arc::clone of both fields, the same allocations.
Database_clone(db) == db

VARIABLES
    configuration,   \* Database._configuration: None or Some(Configuration)
    connection,      \* Connection._connection: None or Some(handle [id, type])
    mutex,           \* holder of the Cell mutex: 0 when free, else the thread
    poisoned,        \* poison flag of the Cell mutex
    source,          \* the configuration the external request guard supplies
    pc,              \* per thread: where it stands in its current call
    local,           \* per thread: locals of the current call
    result,          \* per thread: outcome of its last finished call
    opened,          \* number of native connections opened so far (handle ids)
    stored,          \* number of handles written into the Cell so far
    invoked,         \* per closure: how many times it was called
    served,          \* number of interact calls granted the mutex on a ready Cell
    calls,           \* number of calls started so far
    managed,         \* the Database in the managed state of Rocket: None before on_attach
    probe,           \* an Error value under construction and what was read off it
    rwlock,          \* holders of the configuration RwLock: the writer (0 when none) and the readers
    cmp              \* Connection values under comparison and what eq returned

vars == <<configuration, connection, mutex, poisoned, source, pc, local, result,
          opened, stored, invoked, served, calls, managed, probe, rwlock, cmp>>

\* Locals of a call: the Settings it resolved, the handle initialize built,
\* the variant of the LockedConnection, the closure it called, the outcome of
\* the request guard, what the call found in the Cell when it took the
\* mutex, what the closure returned, how many times the call asked the
\* request guard for the configuration and how many times it called establish.
NoLocal == [settings |-> Pending, database |-> None, conn |-> "Unknown",
            closure |-> "-", guard |-> "-", found |-> None, found_poisoned |-> FALSE,
            returned |-> Pending, asked |-> 0, attempts |-> 0]

\* Outcome of a call: res is what the entry point returned, inner what the
\* private step it wraps returned (initialize for the hook, lock for
\* interact), cell what the Cell held when the call began.
NoResult == [op |-> "-", res |-> Pending, inner |-> Pending, locals |-> NoLocal]

\* No Error value is under construction.
NoProbe == [stage |-> "none", kind |-> "-", payload |-> "-", error |-> Error_from("Other"),
            out_kind |-> "-", out_description |-> "-", out_display |-> "-", reads |-> 0]

\* The configuration RwLock with no guard alive.
RwLock_free == [writer |-> 0, readers |-> {}]

\* No Connection values are under comparison.
NoCmp == [stage |-> "none", a |-> Connection_default, b |-> Connection_default,
          c |-> Connection_default, aa |-> "-", ab |-> "-", ba |-> "-", bc |-> "-", ac |-> "-"]

\* The content behind an Arc of a Database: the allocations of the fairing
\* are the state variables; any other allocation is as Database::default
\* built it, because the hook writes through the Arcs of the fairing only.
RwLock_read(arc) == IF arc = Database_default.configuration THEN configuration ELSE None
Mutex_content(arc) == IF arc = Database_default.database THEN connection ELSE None
Mutex_poisoned(arc) == IF arc = Database_default.database THEN poisoned ELSE FALSE

\* Database::default and the threads before their first call.
Init ==
    /\ configuration = None
    /\ connection = None
    /\ mutex = 0
    /\ poisoned = FALSE
    /\ source \in Configurations
    /\ pc = [t \in Threads |-> "idle"]
    /\ local = [t \in Threads |-> NoLocal]
    /\ result = [t \in Threads |-> NoResult]
    /\ opened = 0
    /\ stored = 0
    /\ invoked = [c \in Closures |-> 0]
    /\ served = 0
    /\ calls = 0
    /\ managed = None
    /\ probe = NoProbe
    /\ rwlock = RwLock_free
    /\ cmp = NoCmp

\* CanLock of a lock that is granted without waiting for its holder.
CanLock_always(t) == TRUE

\* Mutex::lock blocks until no thread holds the mutex.
CanLock(t) == mutex = 0

\* RwLock::read blocks while a writer holds the lock; RwLock::write blocks
\* while any guard is alive.
CanRead(t) == rwlock.writer = 0
CanWrite(t) == rwlock.writer = 0 /\ rwlock.readers = {}

\* Fairing::on_attach: a clone of the fairing is put in the managed state.
on_attach ==
    /\ ~is_some(managed)
    /\ managed' = Some(Database_clone(Database_default))
    /\ UNCHANGED <<configuration, connection, mutex, poisoned, source, pc, local, result,
                   opened, stored, invoked, served, calls, probe, rwlock, cmp>>

\* A call returns (or unwinds): its outcome is kept until the next call of the thread.
Finish(t, op, res, inner, locals) ==
    /\ pc' = [pc EXCEPT ![t] = "idle"]
    /\ local' = [local EXCEPT ![t] = NoLocal]
    /\ result' = [result EXCEPT ![t] = [op |-> op, res |-> res, inner |-> inner, locals |-> locals]]

\* A thread enters one of the entry points; requests are served once the
\* fairing is attached.
Begin(t, op) ==
    /\ is_some(managed)
    /\ pc[t] = "idle"
    /\ calls < MaxCalls
    /\ calls' = calls + 1
    /\ pc' = [pc EXCEPT ![t] = op]
    /\ local' = [local EXCEPT ![t] = NoLocal]
    /\ result' = [result EXCEPT ![t] = NoResult]
    /\ UNCHANGED <<configuration, connection, mutex, poisoned, source, opened, stored, invoked, served, managed, probe, rwlock, cmp>>

\* ------------------------------------------------------------ the hook
\* Connection::initialized, once the mutex is granted: a poisoned mutex is an
\* Err, otherwise whether the Cell holds a handle.
Connection_initialized(arc) ==
    IF Mutex_poisoned(arc)
    THEN Err(Error_new("Other", "poisoned lock: another task failed inside"))
    ELSE Ok(IF is_some(Mutex_content(arc)) THEN "true" ELSE "false")

\* Database::has_configuration
has_configuration(db) == is_some(RwLock_read(db.configuration))

\* Fairing::on_request is entered.
on_request(t) == Begin(t, "on_request")

\* on_request: if !self.initialized().unwrap_or(false) { ... }
on_request_initialized(t) ==
    /\ pc[t] = "on_request"
    /\ CanLock(t)
    /\ IF unwrap_or(Connection_initialized(Database_default.database), "false") = "true"
       THEN Finish(t, "on_request", Ok("()"), Pending,
                   [local[t] EXCEPT !.found = connection, !.found_poisoned = poisoned])
       ELSE /\ pc' = [pc EXCEPT ![t] = "has_configuration"]
            /\ local' = [local EXCEPT ![t].found = connection, ![t].found_poisoned = poisoned]
            /\ UNCHANGED result
    /\ UNCHANGED <<configuration, connection, mutex, poisoned, source, opened, stored, invoked, served, calls, managed, probe, rwlock, cmp>>

\* on_request: if !self.has_configuration() { ... }
on_request_has_configuration(t) ==
    /\ pc[t] = "has_configuration"
    /\ CanRead(t)
    /\ pc' = [pc EXCEPT ![t] = IF has_configuration(Database_default) THEN "initialize" ELSE "guard"]
    /\ UNCHANGED <<configuration, connection, mutex, poisoned, source, local, result,
                   opened, stored, invoked, served, calls, managed, probe, rwlock, cmp>>

\* on_request_guard_failure with the Failure arm unwinding instead of returning.
on_request_guard_panic(t) ==
    /\ pc[t] = "guard"
    /\ Finish(t, "on_request", Panicked, Pending,
              [local[t] EXCEPT !.guard = "Failure", !.asked = @ + 1])
    /\ UNCHANGED <<configuration, connection, mutex, poisoned, source, opened, stored, invoked, served, calls, managed, probe, rwlock, cmp>>

\* on_request_guard_failure inside a loop that asks the guard again on Failure.
on_request_guard_retry(t) ==
    /\ pc[t] = "guard"
    /\ IF local[t].asked + 1 < MaxCalls
       THEN /\ local' = [local EXCEPT ![t].guard = "Failure", ![t].asked = @ + 1]
            /\ UNCHANGED <<pc, result>>
       ELSE Finish(t, "on_request", Ok("()"), Pending,
                   [local[t] EXCEPT !.guard = "Failure", !.asked = @ + 1])
    /\ UNCHANGED <<configuration, connection, mutex, poisoned, source, opened, stored, invoked, served, calls, managed, probe, rwlock, cmp>>

\* on_request: request.guard::<Configuration>() fails and the hook returns.
on_request_guard_failure(t) ==
    /\ pc[t] = "guard"
    /\ Finish(t, "on_request", Ok("()"), Pending,
              [local[t] EXCEPT !.guard = "Failure", !.asked = @ + 1])
    /\ UNCHANGED <<configuration, connection, mutex, poisoned, source, opened, stored, invoked, served, calls, managed, probe, rwlock, cmp>>

\* on_request_store_configuration with the write guard bound to a local that
\* lives to the end of on_request: it is still held when initialize runs.
on_request_store_configuration_keep(t) ==
    /\ pc[t] = "guard"
    /\ CanWrite(t)
    /\ configuration' = Some(source)
    /\ rwlock' = [writer |-> t, readers |-> {}]
    /\ pc' = [pc EXCEPT ![t] = "initialize"]
    /\ local' = [local EXCEPT ![t].guard = "Success", ![t].asked = @ + 1]
    /\ UNCHANGED <<connection, mutex, poisoned, source, result, opened, stored, invoked, served, calls, managed, probe, cmp>>

\* on_request: the guard succeeds and the configuration is stored under the
\* write lock, which is released at the end of the if let.
on_request_store_configuration(t) ==
    /\ pc[t] = "guard"
    /\ CanWrite(t)
    /\ configuration' = Some(source)
    /\ pc' = [pc EXCEPT ![t] = "initialize"]
    /\ local' = [local EXCEPT ![t].guard = "Success", ![t].asked = @ + 1]
    /\ UNCHANGED <<connection, mutex, poisoned, source, result, opened, stored, invoked, served, calls, managed, probe, rwlock, cmp>>

\* initialize: let settings = self.settings()?; the read guard of settings()
\* is dropped when it returns; an Err ends initialize, and the hook discards it.
initialize_settings(t) ==
    /\ pc[t] = "initialize"
    /\ CanRead(t)
    /\ LET s == settings(configuration) IN
       IF is_err(s)
       THEN Finish(t, "on_request", Ok("()"), s, local[t])
       ELSE /\ pc' = [pc EXCEPT ![t] = "establish"]
            /\ local' = [local EXCEPT ![t].settings = s]
            /\ UNCHANGED result
    /\ UNCHANGED <<configuration, connection, mutex, poisoned, source, opened, stored, invoked, served, calls, managed, probe, rwlock, cmp>>

\* initialize: the wildcard arm of the match on the scheme builds None.
initialize_unknown_scheme(t) ==
    /\ pc[t] = "establish"
    /\ BackendOf(local[t].settings.value) = "Unknown"
    /\ pc' = [pc EXCEPT ![t] = "update"]
    /\ local' = [local EXCEPT ![t].database = None]
    /\ UNCHANGED <<configuration, connection, mutex, poisoned, source, result,
                   opened, stored, invoked, served, calls, managed, probe, rwlock, cmp>>

\* initialize_establish_ok that boxes a MysqlConnection whatever the scheme.
initialize_establish_mysql(t) ==
    /\ pc[t] = "establish"
    /\ BackendOf(local[t].settings.value) # "Unknown"
    /\ opened' = opened + 1
    /\ pc' = [pc EXCEPT ![t] = "update"]
    /\ local' = [local EXCEPT ![t].database = Some([id |-> opened + 1, type |-> "Mysql"]),
                                ![t].attempts = @ + 1]
    /\ UNCHANGED <<configuration, connection, mutex, poisoned, source, result, stored, invoked, served, calls, managed, probe, rwlock, cmp>>

\* initialize: XConnection::establish(..) returns Ok and the connection is boxed.
initialize_establish_ok(t) ==
    /\ pc[t] = "establish"
    /\ BackendOf(local[t].settings.value) # "Unknown"
    /\ opened' = opened + 1
    /\ pc' = [pc EXCEPT ![t] = "update"]
    /\ local' = [local EXCEPT ![t].database =
                    Some([id |-> opened + 1, type |-> BackendOf(local[t].settings.value)]),
                                ![t].attempts = @ + 1]
    /\ UNCHANGED <<configuration, connection, mutex, poisoned, source, result, stored, invoked, served, calls, managed, probe, rwlock, cmp>>

\* initialize_establish_err with the Err turned into None (.ok()) instead of
\* unwrapped: initialize goes on to store None.
initialize_establish_none(t) ==
    /\ pc[t] = "establish"
    /\ BackendOf(local[t].settings.value) # "Unknown"
    /\ pc' = [pc EXCEPT ![t] = "update"]
    /\ local' = [local EXCEPT ![t].database = None, ![t].attempts = @ + 1]
    /\ UNCHANGED <<configuration, connection, mutex, poisoned, source, result,
                   opened, stored, invoked, served, calls, managed, probe, rwlock, cmp>>

\* initialize: XConnection::establish(..) returns Err and .unwrap() panics;
\* the mutex is not held yet.
initialize_establish_err(t) ==
    /\ pc[t] = "establish"
    /\ BackendOf(local[t].settings.value) # "Unknown"
    /\ Finish(t, "on_request", Panicked, Panicked, [local[t] EXCEPT !.attempts = @ + 1])
    /\ UNCHANGED <<configuration, connection, mutex, poisoned, source, opened, stored, invoked, served, calls, managed, probe, rwlock, cmp>>

\* initialize: self._database.lock() and *guard = database; a poisoned mutex
\* ends initialize with an Err and the built handle is dropped.
initialize_update(t) ==
    /\ pc[t] = "update"
    /\ CanLock(t)
    /\ IF poisoned
       THEN /\ Finish(t, "on_request", Ok("()"),
                      Err(Error_new("Other", "failed to update database connection")),
                      [local[t] EXCEPT !.found = connection, !.found_poisoned = poisoned])
            /\ UNCHANGED <<connection, stored>>
       ELSE /\ connection' = local[t].database
            /\ stored' = IF is_some(local[t].database) THEN stored + 1 ELSE stored
            /\ Finish(t, "on_request", Ok("()"), Ok("()"),
                      [local[t] EXCEPT !.found = connection, !.found_poisoned = poisoned])
    /\ UNCHANGED <<configuration, mutex, poisoned, source, opened, invoked, served, calls, managed, probe, rwlock, cmp>>

\* ------------------------------------------------------------- interact
\* Database_lock without the None arm of the match on the guard.
Database_lock_skip_empty(s, is_poisoned, guard) ==
    IF is_poisoned
    THEN Err(Error_new("Other", "database got poisoned"))
    ELSE IF BackendOf(s.value) = "Unknown"
    THEN Panicked
    ELSE IF is_some(guard) /\ ~downcast_mut(unwrap(guard), BackendOf(s.value))
    THEN Err(Error_new("Other", "failed to downcast database"))
    ELSE Ok(BackendOf(s.value))

\* Database_lock that recovers the guard of a poisoned mutex (into_inner).
Database_lock_ignore_poison(s, is_poisoned, guard) ==
    IF ~is_some(guard)
    THEN Err(Error_new("Other", "database is not ready"))
    ELSE IF BackendOf(s.value) = "Unknown"
    THEN Panicked
    ELSE IF ~downcast_mut(unwrap(guard), BackendOf(s.value))
    THEN Err(Error_new("Other", "failed to downcast database"))
    ELSE Ok(BackendOf(s.value))

\* Database::lock after settings() succeeded and the mutex was granted: the
\* outcome on a poisoned mutex, an empty Cell, and a handle that is re-typed
\* by the scheme of the Settings.  Ok carries the Connection variant.
Database_lock(s, is_poisoned, guard) ==
    IF is_poisoned
    THEN Err(Error_new("Other", "database got poisoned"))
    ELSE IF ~is_some(guard)
    THEN Err(Error_new("Other", "database is not ready"))
    ELSE IF BackendOf(s.value) = "Unknown"
    THEN Panicked
    ELSE IF ~downcast_mut(unwrap(guard), BackendOf(s.value))
    THEN Err(Error_new("Other", "failed to downcast database"))
    ELSE Ok(BackendOf(s.value))

\* interact_lock_err that hands on the kind and message of an empty Cell.
interact_lock_err_unready == Err(Error_new("UnimplementedFormat", "database is not ready"))

\* interact: what is returned when self.lock() is an Err.
interact_lock_err == Err(Error_new("Other", "database got poisoned"))

\* interact_map_err that keeps the string of the kind instead of the description.
interact_map_err_kind(e) == Err(Error_new("Other", ErrorKind_as_str(Error_kind(e))))

\* interact: .map_err(|err| Error::new(ErrorKind::Other, err.description()))
interact_map_err(e) == Err(Error_new("Other", Error_description(e)))

\* Errors a closure may return: E is any Error type built From diesel errors.
ClosureErrors == {Error_new("Diesel", "NotFound"), Error_from("MissingValue")}

\* Database::interact is entered.
interact(t) == Begin(t, "interact")

\* lock: let settings = self.settings()?; an Err ends lock and interact.
lock_settings(t) ==
    /\ pc[t] = "interact"
    /\ CanRead(t)
    /\ LET s == settings(RwLock_read(unwrap(managed).configuration)) IN
       IF is_err(s)
       THEN Finish(t, "interact", interact_lock_err, s, local[t])
       ELSE /\ pc' = [pc EXCEPT ![t] = "lock"]
            /\ local' = [local EXCEPT ![t].settings = s]
            /\ UNCHANGED result
    /\ UNCHANGED <<configuration, connection, mutex, poisoned, source, opened, stored, invoked, served, calls, managed, probe, rwlock, cmp>>

\* lock: self._database.lock() and the match on the guard.  On Ok the thread
\* keeps the mutex inside the LockedConnection and interact calls the closure
\* its variant selects; on Err the guard is dropped; the unimplemented!() of
\* the wildcard arm unwinds with the guard held and poisons the mutex.
lock_connection(t) ==
    /\ pc[t] = "lock"
    /\ CanLock(t)
    /\ LET arc == unwrap(managed).database
           locked == Database_lock(local[t].settings, Mutex_poisoned(arc), Mutex_content(arc))
           seen == [local[t] EXCEPT !.found = connection, !.found_poisoned = poisoned]
       IN
       IF is_ok(locked) /\ Dispatch(locked.value) \in Closures
       THEN /\ mutex' = t
            /\ pc' = [pc EXCEPT ![t] = "closure"]
            /\ local' = [local EXCEPT ![t] =
                            [seen EXCEPT !.conn = locked.value, !.closure = Dispatch(locked.value)]]
            /\ invoked' = [invoked EXCEPT ![Dispatch(locked.value)] = @ + 1]
            /\ UNCHANGED <<result, poisoned>>
       ELSE IF is_err(locked)
       THEN /\ Finish(t, "interact", interact_lock_err, locked, seen)
            /\ UNCHANGED <<mutex, poisoned, invoked>>
       ELSE /\ Finish(t, "interact", Panicked, Panicked, seen)
            /\ poisoned' = TRUE
            /\ UNCHANGED <<mutex, invoked>>
    /\ served' = IF is_some(connection) /\ ~poisoned THEN served + 1 ELSE served
    /\ UNCHANGED <<configuration, connection, source, opened, stored, calls, managed, probe, rwlock, cmp>>

\* The closure returns Ok: interact returns it and the guard is dropped.
closure_ok(t) ==
    /\ pc[t] = "closure"
    /\ mutex' = 0
    /\ Finish(t, "interact", Ok("T"), Ok(local[t].conn),
              [local[t] EXCEPT !.returned = Ok("T")])
    /\ UNCHANGED <<configuration, connection, poisoned, source, opened, stored, invoked, served, calls, managed, probe, rwlock, cmp>>

\* closure_err that empties the Cell when the closure failed.
closure_err_reset(t) ==
    /\ pc[t] = "closure"
    /\ \E e \in ClosureErrors :
          Finish(t, "interact", interact_map_err(e), Ok(local[t].conn),
                 [local[t] EXCEPT !.returned = Err(e)])
    /\ mutex' = 0
    /\ connection' = None
    /\ UNCHANGED <<configuration, poisoned, source, opened, stored, invoked, served, calls, managed, probe, rwlock, cmp>>

\* closure_err that returns without dropping the guard (the guard is leaked).
closure_err_leak(t) ==
    /\ pc[t] = "closure"
    /\ \E e \in ClosureErrors :
          Finish(t, "interact", interact_map_err(e), Ok(local[t].conn),
                 [local[t] EXCEPT !.returned = Err(e)])
    /\ UNCHANGED <<configuration, connection, mutex, poisoned, source, opened, stored, invoked, served, calls, managed, probe, rwlock, cmp>>

\* The closure returns Err(e): interact maps it and the guard is dropped.
closure_err(t) ==
    /\ pc[t] = "closure"
    /\ \E e \in ClosureErrors :
          Finish(t, "interact", interact_map_err(e), Ok(local[t].conn),
                 [local[t] EXCEPT !.returned = Err(e)])
    /\ mutex' = 0
    /\ UNCHANGED <<configuration, connection, poisoned, source, opened, stored, invoked, served, calls, managed, probe, rwlock, cmp>>

\* The closure panics: the guard is dropped while unwinding, which poisons
\* the mutex.
closure_panic(t) ==
    /\ pc[t] = "closure"
    /\ mutex' = 0
    /\ poisoned' = TRUE
    /\ Finish(t, "interact", Panicked, Ok(local[t].conn), local[t])
    /\ UNCHANGED <<configuration, connection, source, opened, stored, invoked, served, calls, managed, probe, rwlock, cmp>>

\* ---------------------------------------------------------- initialized
\* Database::initialized is entered.
initialized(t) == Begin(t, "initialized")

\* Database::initialized -> Connection::initialized: lock, is_some, unlock.
initialized_lock(t) ==
    /\ pc[t] = "initialized"
    /\ CanLock(t)
    /\ Finish(t, "initialized", Connection_initialized(unwrap(managed).database), Pending,
              [local[t] EXCEPT !.found = connection, !.found_poisoned = poisoned])
    /\ UNCHANGED <<configuration, connection, mutex, poisoned, source, opened, stored, invoked, served, calls, managed, probe, rwlock, cmp>>

Next ==
    \/ on_attach
    \/ \E t \in Threads :
        \/ on_request(t)
        \/ on_request_initialized(t)
        \/ on_request_has_configuration(t)
        \/ on_request_guard_failure(t)
        \/ on_request_store_configuration(t)
        \/ initialize_settings(t)
        \/ initialize_unknown_scheme(t)
        \/ initialize_establish_ok(t)
        \/ initialize_establish_err(t)
        \/ initialize_update(t)
        \/ interact(t)
        \/ lock_settings(t)
        \/ lock_connection(t)
        \/ closure_ok(t)
        \/ closure_err(t)
        \/ closure_panic(t)
        \/ initialized(t)
        \/ initialized_lock(t)

Spec == Init /\ [][Next]_vars

\* The steps a thread takes inside a call it has entered.
Step(t) ==
    \/ on_request_initialized(t)
    \/ on_request_has_configuration(t)
    \/ on_request_guard_failure(t)
    \/ on_request_store_configuration(t)
    \/ initialize_settings(t)
    \/ initialize_unknown_scheme(t)
    \/ initialize_establish_ok(t)
    \/ initialize_establish_err(t)
    \/ initialize_update(t)
    \/ lock_settings(t)
    \/ lock_connection(t)
    \/ closure_ok(t)
    \/ closure_err(t)
    \/ closure_panic(t)
    \/ initialized_lock(t)

\* Fair scheduling: some thread that can take a step inside its call
\* eventually does; this includes that a running closure ends.  Entering a
\* call is never forced.
FairSpec == Spec /\ WF_vars(\E t \in Threads : Step(t))

\* --------------------------------------------------- the Error type alone
\* An Error is built from a kind, or from a kind and a payload, and then
\* read any number of times, as the tests of error.rs do.
ErrorInit ==
    /\ configuration = None
    /\ connection = None
    /\ mutex = 0
    /\ poisoned = FALSE
    /\ source = [has_url |-> FALSE, is_str |-> FALSE, url |-> "-"]
    /\ pc = [t \in Threads |-> "idle"]
    /\ local = [t \in Threads |-> NoLocal]
    /\ result = [t \in Threads |-> NoResult]
    /\ opened = 0
    /\ stored = 0
    /\ invoked = [c \in Closures |-> 0]
    /\ served = 0
    /\ calls = 0
    /\ managed = None
    /\ rwlock = RwLock_free
    /\ cmp = NoCmp
    /\ probe \in { [NoProbe EXCEPT !.stage = "input", !.kind = k, !.payload = p] :
                      k \in ErrorKinds, p \in Payloads }

\* Error::from(kind)
simple ==
    /\ probe.stage = "input"
    /\ probe' = [probe EXCEPT !.stage = "simple", !.error = Error_from(probe.kind)]
    /\ UNCHANGED <<configuration, connection, mutex, poisoned, source, pc, local, result,
                   opened, stored, invoked, served, calls, managed, rwlock, cmp>>

\* Error::new(kind, payload)
custom ==
    /\ probe.stage = "input"
    /\ probe' = [probe EXCEPT !.stage = "custom", !.error = Error_new(probe.kind, probe.payload)]
    /\ UNCHANGED <<configuration, connection, mutex, poisoned, source, pc, local, result,
                   opened, stored, invoked, served, calls, managed, rwlock, cmp>>

\* error.kind()
read_kind ==
    /\ probe.stage \in {"simple", "custom"}
    /\ probe.reads < MaxReads
    /\ probe' = [probe EXCEPT !.out_kind = Error_kind(probe.error), !.reads = @ + 1]
    /\ UNCHANGED <<configuration, connection, mutex, poisoned, source, pc, local, result,
                   opened, stored, invoked, served, calls, managed, rwlock, cmp>>

\* error.description()
read_description ==
    /\ probe.stage \in {"simple", "custom"}
    /\ probe.reads < MaxReads
    /\ probe' = [probe EXCEPT !.out_description = Error_description(probe.error), !.reads = @ + 1]
    /\ UNCHANGED <<configuration, connection, mutex, poisoned, source, pc, local, result,
                   opened, stored, invoked, served, calls, managed, rwlock, cmp>>

\* format!("{}", error)
read_display ==
    /\ probe.stage \in {"simple", "custom"}
    /\ probe.reads < MaxReads
    /\ probe' = [probe EXCEPT !.out_display = Error_display(probe.error), !.reads = @ + 1]
    /\ UNCHANGED <<configuration, connection, mutex, poisoned, source, pc, local, result,
                   opened, stored, invoked, served, calls, managed, rwlock, cmp>>

ErrorNext ==
    \/ simple
    \/ custom
    \/ read_kind
    \/ read_description
    \/ read_display

ErrorSpec == ErrorInit /\ [][ErrorNext]_vars

\* ------------------------------------------- Connection equality alone
\* Three Connection values are built, each any variant pointing at any
\* connection, and compared with == in the orders the laws of an
\* equivalence ask for.
EqInit ==
    /\ configuration = None
    /\ connection = None
    /\ mutex = 0
    /\ poisoned = FALSE
    /\ source = [has_url |-> FALSE, is_str |-> FALSE, url |-> "-"]
    /\ pc = [t \in Threads |-> "idle"]
    /\ local = [t \in Threads |-> NoLocal]
    /\ result = [t \in Threads |-> NoResult]
    /\ opened = 0
    /\ stored = 0
    /\ invoked = [c \in Closures |-> 0]
    /\ served = 0
    /\ calls = 0
    /\ managed = None
    /\ probe = NoProbe
    /\ rwlock = RwLock_free
    /\ cmp \in { [NoCmp EXCEPT !.stage = "input", !.a = x, !.b = y, !.c = z] :
                    x \in LockedConnections, y \in LockedConnections, z \in LockedConnections }

\* What a comparison returned, as kept in cmp.
Bool_str(b) == IF b THEN "true" ELSE "false"

\* a == a, a == b and b == a
eq_pair ==
    /\ cmp.stage = "input"
    /\ cmp' = [cmp EXCEPT !.stage = "pair",
                           !.aa = Bool_str(Connection_eq(cmp.a, cmp.a)),
                           !.ab = Bool_str(Connection_eq(cmp.a, cmp.b)),
                           !.ba = Bool_str(Connection_eq(cmp.b, cmp.a))]
    /\ UNCHANGED <<configuration, connection, mutex, poisoned, source, pc, local, result,
                   opened, stored, invoked, served, calls, managed, probe, rwlock>>

\* b == c and a == c
eq_chain ==
    /\ cmp.stage = "pair"
    /\ cmp' = [cmp EXCEPT !.stage = "chain",
                           !.bc = Bool_str(Connection_eq(cmp.b, cmp.c)),
                           !.ac = Bool_str(Connection_eq(cmp.a, cmp.c))]
    /\ UNCHANGED <<configuration, connection, mutex, poisoned, source, pc, local, result,
                   opened, stored, invoked, served, calls, managed, probe, rwlock>>

EqNext ==
    \/ eq_pair
    \/ eq_chain

EqSpec == EqInit /\ [][EqNext]_vars

TypeOK ==
    /\ mutex \in 0 .. NThreads
    /\ poisoned \in BOOLEAN
    /\ calls \in 0 .. MaxCalls

\* =================================================================
\* Properties
\* =================================================================

\* The call op of thread t has returned (or unwound) and was its last call.
Finished(t, op) == result[t].op = op /\ result[t].res.status # "Pending"

\* An Err of kind Other.
IsErrOther(r) == is_err(r) /\ Error_kind(r.err) = "Other"

\* The closure the scheme of the configured url calls for, read off the url.
ExpectedClosure ==
    IF ~source.is_str THEN "-"
    ELSE CASE source.url = "mysql://u@h/db"      -> "mysql_f"
           [] source.url \in {"postgres://u@h/db", "postgresql://u@h/db"} -> "pg_f"
           [] source.url = "sqlite://h/db.sqlite" -> "sqlite_f"
           [] OTHER -> "-"

KnownScheme == ExpectedClosure \in Closures

UnknownScheme == source.is_str /\ source.url = "http://h/db"

\* C1: at most one thread is between the grant of the Cell mutex in
\* Database::lock and the return of interact, i.e. at most one closure runs at
\* any time, and the thread running it is the holder of the mutex.
C1_MutualExclusion ==
    /\ Cardinality({t \in Threads : pc[t] = "closure"}) <= 1
    /\ \A t \in Threads : pc[t] = "closure" => mutex = t

\* One thread runs its closure while another waits in Database::lock.
C1_Witness ==
    \E t, u \in Threads : t # u /\ pc[t] = "closure" /\ pc[u] = "lock"

\* C2: with a url of scheme mysql, postgres/postgresql or sqlite, the closure
\* of the matching backend has been called once for each interact call that
\* was granted the mutex on an established Cell whose mutex is not poisoned,
\* the other two closures have never been called, and a running closure is
\* the matching one.
C2_Dispatch ==
    KnownScheme =>
        /\ invoked[ExpectedClosure] = served
        /\ \A c \in Closures \ {ExpectedClosure} : invoked[c] = 0
        /\ \A t \in Threads : pc[t] = "closure" => local[t].closure = ExpectedClosure

\* Two interact calls on a postgresql url have called pg_f twice.
C2_Witness ==
    /\ source.url = "postgresql://u@h/db"
    /\ is_some(connection)
    /\ invoked["pg_f"] = 2
    /\ served = 2

\* C3 as stated: an interact call that takes the mutex on an empty Cell, with
\* Settings of a known scheme, establishes the connection and runs the
\* matching closure.
C3_InteractEstablishes ==
    [][\A t \in Threads :
          (/\ pc[t] = "lock"
           /\ pc'[t] # "lock"
           /\ ~is_some(connection)
           /\ BackendOf(local[t].settings.value) # "Unknown")
          => (is_some(connection') /\ pc'[t] = "closure")]_vars

\* C3 amended: no step of interact opens a connection or writes the Cell; an
\* interact call that takes the mutex on an empty Cell leaves it empty, calls
\* no closure and returns an Err of kind Other (lock reports "database is not
\* ready").
C3_InteractNeverEstablishes ==
    [][\A t \in Threads :
          /\ (pc[t] \in {"interact", "lock", "closure"} /\ pc'[t] # pc[t])
             => (connection' = connection /\ opened' = opened /\ stored' = stored)
          /\ (pc[t] = "lock" /\ pc'[t] # "lock" /\ ~is_some(connection))
             => (/\ pc'[t] = "idle"
                 /\ invoked' = invoked
                 /\ IsErrOther(result'[t].res)
                 /\ IsErrOther(result'[t].inner)
                 /\ Error_description(result'[t].inner.err) = "database is not ready")]_vars

\* An interact call with Settings of a known scheme found the Cell empty and
\* returned the error, the Cell still being empty.
C3_Witness ==
    \E t \in Threads :
        /\ Finished(t, "interact")
        /\ KnownScheme
        /\ is_ok(result[t].locals.settings)
        /\ IsErrOther(result[t].res)
        /\ Error_description(result[t].inner.err) = "database is not ready"
        /\ ~is_some(connection)

\* C4 as stated: a hook thread that is granted the mutex in initialize while
\* the Cell already holds a handle does not store another one.
C4_SecondHookSkips ==
    [][\A t \in Threads :
          (pc[t] = "update" /\ pc'[t] # "update" /\ is_some(connection))
          => connection' = connection]_vars

\* C5 as stated: with Settings of a known scheme the native open call
\* succeeds at most once.
C5_OpenedAtMostOnce == KnownScheme => opened <= 1

\* C6 as stated: initialized() returns Ok(false) when the Cell is empty and
\* Ok(true) when it holds a handle.
C6_InitializedReturnsOk ==
    \A t \in Threads :
        Finished(t, "initialized")
        => result[t].res = Ok(IF is_some(result[t].locals.found) THEN "true" ELSE "false")

\* C6 amended: initialized() returns Ok(false) while the Cell is empty, and
\* once it holds a handle Ok(true) as long as the mutex is not poisoned and an
\* Err of kind Other when it is (the mutex is never poisoned while the Cell is
\* empty); the Cell never goes from holding a handle back to empty.
C6_Monotonic ==
    /\ [](\A t \in Threads :
            Finished(t, "initialized")
            => IF result[t].locals.found_poisoned
               THEN IsErrOther(result[t].res) /\ is_some(result[t].locals.found)
               ELSE result[t].res =
                        Ok(IF is_some(result[t].locals.found) THEN "true" ELSE "false"))
    /\ [](poisoned => is_some(connection))
    /\ [][is_some(connection) => is_some(connection')]_vars

\* After an establishment and a closure panic, an initialized() call found
\* the handle in place and returned an Err of kind Other.
C6_Witness ==
    \E t \in Threads :
        /\ Finished(t, "initialized")
        /\ result[t].locals.found_poisoned
        /\ is_some(result[t].locals.found)
        /\ IsErrOther(result[t].res)
        /\ is_some(connection)

\* C7 as stated: once the Cell holds a handle, the stored handle never changes.
C7_HandleNeverReplaced ==
    [][is_some(connection) => connection' = connection]_vars

\* C8: once the mutex is poisoned it stays poisoned, no thread holds it or
\* runs a closure, and every interact call that takes the mutex afterwards
\* returns an Err of kind Other without calling a closure.
C8_PoisonedInteractFails ==
    /\ [][poisoned => poisoned']_vars
    /\ [](poisoned => (mutex = 0 /\ \A t \in Threads : pc[t] # "closure"))
    /\ [](\A t \in Threads :
            (Finished(t, "interact") /\ result[t].locals.found_poisoned)
            => (IsErrOther(result[t].res) /\ result[t].locals.closure = "-"))
    /\ [][\A t \in Threads :
            (poisoned /\ pc[t] = "lock" /\ pc'[t] # "lock")
            => (pc'[t] = "idle" /\ invoked' = invoked /\ IsErrOther(result'[t].res))]_vars

\* After a closure panicked, an interact call returned the error.
C8_Witness ==
    \E t \in Threads :
        /\ poisoned
        /\ Finished(t, "interact")
        /\ result[t].locals.found_poisoned
        /\ IsErrOther(result[t].res)

C10_EstablishErrReturned ==
    \A t \in Threads : result[t].op = "on_request" => result[t].res.status # "Panic"

\* The message of the error the private step of a call returned.
InnerMessage(t) == Error_description(result[t].inner.err)

\* C11: an interact call made while no Settings are stored returns an Err of
\* kind Other (settings reports "no configuration available"), calls no
\* closure, does not take the Cell mutex and leaves the Cell as it was.
C11_UnconfiguredInteract ==
    [][\A t \in Threads :
          (pc[t] = "interact" /\ pc'[t] # "interact" /\ ~is_some(configuration))
          => (/\ pc'[t] = "idle"
              /\ IsErrOther(result'[t].res)
              /\ is_err(result'[t].inner)
              /\ Error_description(result'[t].inner.err) = "no configuration available"
              /\ result'[t].locals.closure = "-"
              /\ invoked' = invoked
              /\ mutex' = mutex
              /\ poisoned' = poisoned
              /\ connection' = connection)]_vars

\* An interact call on an unconfigured Facade returned the error.
C11_Witness ==
    \E t \in Threads :
        /\ Finished(t, "interact")
        /\ ~is_some(configuration)
        /\ IsErrOther(result[t].res)
        /\ is_err(result[t].inner)
        /\ InnerMessage(t) = "no configuration available"

\* C12: no step of interact writes the Cell, so what it held when the call
\* took the mutex is what it holds when the call returns; a return of the
\* closure (Ok or Err) leaves the mutex free and unpoisoned; an interact call
\* that takes the mutex on an established, unpoisoned Cell reaches its
\* closure, and returns Ok when the closure does.
C12_InteractKeepsCell ==
    [][\A t \in Threads :
          /\ (pc[t] \in {"interact", "lock", "closure"} /\ pc'[t] # pc[t])
             => connection' = connection
          /\ (pc[t] = "closure" /\ pc'[t] # pc[t] /\ result'[t].res.status \in {"Ok", "Err"})
             => (poisoned' = poisoned /\ mutex' = 0)
          /\ (pc[t] = "lock" /\ pc'[t] # pc[t] /\ is_some(connection) /\ ~poisoned)
             => pc'[t] = "closure"
          /\ (pc[t] = "closure" /\ pc'[t] # pc[t] /\ result'[t].locals.returned = Ok("T"))
             => result'[t].res = Ok("T")]_vars

\* One interact call returned the error of its closure and another interact
\* call on the same handle returned Ok, the handle still being in the Cell.
C12_Witness ==
    \E t, u \in Threads :
        /\ t # u
        /\ Finished(t, "interact") /\ is_err(result[t].locals.returned)
        /\ Finished(u, "interact") /\ result[u].res = Ok("T")
        /\ is_some(connection)
        /\ connection = result[t].locals.found
        /\ connection = result[u].locals.found

\* C13: a thread holds the Cell mutex only while its closure runs; once its
\* interact call has returned, by whatever path, it holds it no more.
C13_LockReleased ==
    /\ mutex # 0 => pc[mutex] = "closure"
    /\ \A t \in Threads : Finished(t, "interact") => mutex # t

\* An interact call returned the error of its closure and an initialized()
\* call of another thread then got the mutex and returned Ok(true).
C13_Witness ==
    \E t, u \in Threads :
        /\ t # u
        /\ Finished(t, "interact") /\ is_err(result[t].locals.returned)
        /\ Finished(u, "initialized") /\ result[u].res = Ok("true")
        /\ mutex = 0

\* C14 as stated: a hook thread stores the configuration only when none is
\* stored, so that a stored configuration is never written again.
C14_StoreOnlyWhenAbsent ==
    [][\A t \in Threads :
          (pc[t] = "guard" /\ pc'[t] = "initialize") => ~is_some(configuration)]_vars

\* C15: while no Settings are stored the Cell is empty and no connection was
\* opened; a hook call whose request guard fails returns normally without
\* running initialize, and its return stores no Settings, opens no connection
\* and leaves the Cell alone; an interact call that finds no Settings returns
\* the no-configuration error, of kind Other.
C15_HookWithoutConfiguration ==
    /\ [](~is_some(configuration) => (~is_some(connection) /\ opened = 0 /\ stored = 0))
    /\ [](\A t \in Threads :
            (Finished(t, "on_request") /\ result[t].locals.guard = "Failure")
            => (/\ result[t].res = Ok("()")
                /\ result[t].inner = Pending
                /\ ~is_some(result[t].locals.database)))
    /\ [](\A t \in Threads :
            (Finished(t, "interact") /\ is_err(result[t].inner)
                /\ InnerMessage(t) = "no configuration available")
            => IsErrOther(result[t].res))
    /\ [][\A t \in Threads :
            (pc[t] = "guard" /\ pc'[t] = "idle")
            => (/\ configuration' = configuration
                /\ connection' = connection
                /\ opened' = opened)]_vars

\* The request guard of a hook call failed, the Facade is still unconfigured,
\* and an interact call returned the no-configuration error.
C15_Witness ==
    \E t, u \in Threads :
        /\ Finished(t, "on_request") /\ result[t].locals.guard = "Failure"
        /\ ~is_some(configuration)
        /\ ~is_some(connection)
        /\ Finished(u, "interact") /\ IsErrOther(result[u].res)
        /\ InnerMessage(u) = "no configuration available"

\* C16: the fairing and the clone put in the managed state by on_attach see
\* the same state: has_configuration(), initialized(), the Settings and the
\* content of the Cell agree on both, and an initialized() call on the clone
\* reports the handle the hook stored through the fairing.
C16_ClonesShareState ==
    is_some(managed) =>
        /\ has_configuration(unwrap(managed)) = has_configuration(Database_default)
        /\ Connection_initialized(unwrap(managed).database)
              = Connection_initialized(Database_default.database)
        /\ settings(RwLock_read(unwrap(managed).configuration)) = settings(configuration)
        /\ Mutex_content(unwrap(managed).database) = connection
        /\ \A t \in Threads :
              (Finished(t, "initialized") /\ ~result[t].locals.found_poisoned)
              => result[t].res = Ok(IF is_some(result[t].locals.found) THEN "true" ELSE "false")

\* The hook stored Settings and a handle through the fairing, and an interact
\* call on the managed clone ran its closure on that handle.
C16_Witness ==
    /\ is_some(managed)
    /\ is_some(configuration)
    /\ is_some(connection)
    /\ \E t \in Threads : Finished(t, "interact") /\ result[t].res = Ok("T")

\* C17: when the closure returned Err(e), interact returns an Err built by
\* Error::new, of kind Diesel or Other, whose description is that of e.
C17_ClosureErrorMapped ==
    \A t \in Threads :
        (Finished(t, "interact") /\ is_err(result[t].locals.returned))
        => (/\ is_err(result[t].res)
            /\ result[t].res.err.repr = "Custom"
            /\ Error_kind(result[t].res.err) \in {"Diesel", "Other"}
            /\ Error_description(result[t].res.err)
                  = Error_description(result[t].locals.returned.err))

\* A closure returned an Error built from MissingValue alone and interact
\* returned an Err of kind Other described as missing_value.
C17_Witness ==
    \E t \in Threads :
        /\ Finished(t, "interact")
        /\ result[t].locals.returned = Err(Error_from("MissingValue"))
        /\ IsErrOther(result[t].res)
        /\ Error_description(result[t].res.err) = "missing_value"

\* The kind settings() fails with on every call that resolved Settings from
\* a stored configuration.
SettingsFailWith(kind) ==
    /\ opened = 0
    /\ ~is_some(connection)
    /\ \A t \in Threads :
          (Finished(t, "on_request") /\ result[t].locals.guard # "Failure")
          => (is_err(result[t].inner) /\ Error_kind(result[t].inner.err) = kind)
    /\ \A t \in Threads :
          (Finished(t, "interact") /\ InnerMessage(t) # "no configuration available")
          => (is_err(result[t].inner) /\ Error_kind(result[t].inner.err) = kind)

\* C18: with a configuration that has no url key, resolving Settings fails
\* with kind MissingValue; with a url that is not a string it fails with kind
\* FormatError; in both cases no connection is opened and the Cell stays empty.
C18_ConfigurationKeyErrors ==
    /\ ~source.has_url => SettingsFailWith("MissingValue")
    /\ (source.has_url /\ ~source.is_str) => SettingsFailWith("FormatError")

\* With a url that is not a string, initialize in the hook and lock in
\* interact both failed with kind FormatError.
C18_Witness ==
    /\ source.has_url /\ ~source.is_str
    /\ \E t, u \in Threads :
          /\ Finished(t, "on_request") /\ is_err(result[t].inner)
          /\ Error_kind(result[t].inner.err) = "FormatError"
          /\ Finished(u, "interact") /\ is_err(result[u].inner)
          /\ Error_kind(result[u].inner.err) = "FormatError"

\* C19: an Error built from a kind alone and an Error built from a kind and
\* a payload both return that kind from kind().
C19_KindRoundTrip ==
    probe.out_kind # "-" => probe.out_kind = probe.kind

\* kind() was read off an Error built from MissingValue and a payload.
C19_Witness ==
    /\ probe.stage = "custom"
    /\ probe.kind = "MissingValue"
    /\ probe.out_kind = "MissingValue"

\* The fixed string of each kind.
KindString(kind) ==
    CASE kind = "FormatError"         -> "format_error"
      [] kind = "MissingValue"        -> "missing_value"
      [] kind = "UnimplementedFormat" -> "unimplemented_format"
      [] kind = "Diesel"              -> "diesel"
      [] kind = "Other"               -> "other"

\* C20 as stated: for an Error built from a kind alone description() and
\* Display both give the string of the kind; for an Error built with a payload
\* both give the description of the payload.
C20_DescriptionAndDisplay ==
    /\ probe.stage = "simple"
       => /\ probe.out_description \in {"-", KindString(probe.kind)}
          /\ probe.out_display \in {"-", KindString(probe.kind)}
    /\ probe.stage = "custom"
       => /\ probe.out_description \in {"-", Payload_description(probe.payload)}
          /\ probe.out_display \in {"-", Payload_description(probe.payload)}

\* C20 amended: for an Error built from a kind alone description() and
\* Display both give the string of the kind, however often they are read; for
\* an Error built with a payload description() gives the description of the
\* payload and Display gives what the payload displays (the same string for a
\* payload made from a string).
C20_DescriptionAndDisplayOfPayload ==
    /\ probe.stage = "simple"
       => /\ probe.out_description \in {"-", KindString(probe.kind)}
          /\ probe.out_display \in {"-", KindString(probe.kind)}
    /\ probe.stage = "custom"
       => /\ probe.out_description \in {"-", Payload_description(probe.payload)}
          /\ probe.out_display \in {"-", Payload_display(probe.payload)}
    /\ (probe.stage = "custom" /\ probe.payload = "test error")
       => /\ probe.out_description \in {"-", "test error"}
          /\ probe.out_display \in {"-", "test error"}

\* description() was read twice and Display once off an Error built with the
\* payload NotFound, whose description and Display differ.
C20_Witness ==
    /\ probe.stage = "custom"
    /\ probe.payload = "diesel::result::Error::NotFound"
    /\ probe.out_description = "Record not found"
    /\ probe.out_display = "NotFound"
    /\ probe.reads = 3

\* The call of thread t got an Err from its private step before any Settings
\* were resolved, and not because no configuration was stored: the Err is the
\* one Settings::new returned to settings().
SettingsNewFailed(t) ==
    /\ result[t].op \in {"on_request", "interact"}
    /\ is_err(result[t].inner)
    /\ result[t].locals.settings = Pending
    /\ InnerMessage(t) # "no configuration available"

\* C21: with a configuration whose url is a string, Settings::new returns
\* Ok(Settings) when Url::parse accepts the string and only then, and
\* otherwise an Err of kind Other that carries the description of the parse
\* error; the step that calls it changes nothing but the locals and the
\* outcome of the calling thread.
C21_SettingsNew ==
    /\ []((source.has_url /\ source.is_str) =>
            \A t \in Threads :
               /\ local[t].settings # Pending
                  => (is_ok(Url_parse(source.url)) /\ local[t].settings = Ok(Url_parse(source.url).value))
               /\ result[t].locals.settings # Pending
                  => (is_ok(Url_parse(source.url))
                      /\ result[t].locals.settings = Ok(Url_parse(source.url).value))
               /\ SettingsNewFailed(t)
                  => (/\ is_err(Url_parse(source.url))
                      /\ Error_kind(result[t].inner.err) = "Other"
                      /\ result[t].inner.err.repr = "Custom"
                      /\ InnerMessage(t) = Error_description(Url_parse(source.url).err)))
    /\ [][\A t \in Threads :
            (pc[t] \in {"initialize", "interact"} /\ pc'[t] # pc[t])
            => UNCHANGED <<configuration, connection, mutex, poisoned, source, opened, stored,
                           invoked, served, calls, managed, rwlock>>]_vars

\* The url is no url: Settings::new failed in the hook and in interact with
\* the description of the parse error, while a configuration was stored.
C21_Witness ==
    /\ source.is_str /\ source.url = "not a url"
    /\ is_some(configuration)
    /\ \E t, u \in Threads :
          /\ Finished(t, "on_request") /\ SettingsNewFailed(t)
          /\ InnerMessage(t) = "relative URL without a base"
          /\ Finished(u, "interact") /\ SettingsNewFailed(u)
          /\ IsErrOther(result[u].inner)

\* C22: whenever the Cell holds a handle, a configuration is stored, its
\* Settings resolve, and the handle is of the backend the scheme of those
\* Settings selects, which is one of the three backends; hence no lock step
\* of interact ends with "failed to downcast database" nor unwinds in the
\* arm of an unknown scheme.
C22_HandleMatchesSettings ==
    /\ is_some(connection) =>
          /\ is_some(configuration)
          /\ is_ok(settings(configuration))
          /\ BackendOf(settings(configuration).value) \in Backends
          /\ downcast_mut(unwrap(connection), BackendOf(settings(configuration).value))
    /\ \A t \in Threads :
          Finished(t, "interact") =>
             /\ result[t].inner.status # "Panic"
             /\ is_err(result[t].inner) => InnerMessage(t) # "failed to downcast database"

\* The hook stored a handle for a postgres url and the lock step of an
\* interact call re-typed it as a Pg connection.
C22_Witness ==
    /\ source.url = "postgres://u@h/db"
    /\ is_some(connection)
    /\ unwrap(connection).type = "Pg"
    /\ \E t \in Threads : Finished(t, "interact") /\ result[t].inner = Ok("Pg")

\* C23: every Err interact returns is of kind Other, and when the lock step
\* failed (no configuration, no url key, a url that is not a string or does
\* not parse, an empty Cell, a poisoned mutex) the Err is a new one with the
\* message "database got poisoned", whatever the kind and message of the
\* failure.
C23_InteractErrorsAreOther ==
    \A t \in Threads :
        Finished(t, "interact") =>
           /\ is_err(result[t].res) => Error_kind(result[t].res.err) = "Other"
           /\ is_err(result[t].inner)
              => (/\ is_err(result[t].res)
                  /\ result[t].res.err.repr = "Custom"
                  /\ Error_kind(result[t].res.err) = "Other"
                  /\ Error_description(result[t].res.err) = "database got poisoned")

\* The lock step of an interact call failed with kind MissingValue or
\* FormatError and the call returned Other, "database got poisoned".
C23_Witness ==
    \E t \in Threads :
        /\ Finished(t, "interact")
        /\ is_err(result[t].inner)
        /\ Error_kind(result[t].inner.err) \in {"MissingValue", "FormatError"}
        /\ IsErrOther(result[t].res)
        /\ Error_description(result[t].res.err) = "database got poisoned"

\* Where a thread is about to take the Cell mutex, and where it is about to
\* take the configuration RwLock.
AtMutex(t) == pc[t] \in {"on_request", "update", "lock", "initialized"}
AtRwLock(t) == pc[t] \in {"has_configuration", "guard", "initialize", "interact"}

\* Thread t holds a guard of the configuration RwLock.
HoldsRwLock(t) == rwlock.writer = t \/ t \in rwlock.readers

\* C24: a thread about to take the Cell mutex holds no guard of the
\* configuration RwLock and a thread about to take the RwLock does not hold
\* the mutex; the mutex is held by a running closure only; and under fair
\* scheduling every call a thread has entered ends.  A call ends by
\* unwinding instead of returning only when establish failed in the hook or
\* the closure panicked in interact.
C24_DeadlockFreedom ==
    /\ [](\A t \in Threads :
            /\ AtMutex(t) => (~HoldsRwLock(t) /\ mutex # t)
            /\ AtRwLock(t) => (mutex # t /\ ~HoldsRwLock(t))
            /\ mutex = t => pc[t] = "closure")
    /\ [](\A t \in Threads :
            (pc[t] = "idle" /\ result[t].res.status = "Panic")
            => \/ (result[t].op = "on_request" /\ result[t].locals.attempts = 1
                       /\ ~is_some(result[t].locals.database))
               \/ (result[t].op = "interact" /\ result[t].locals.closure \in Closures))
    /\ \A t \in Threads : (pc[t] # "idle") ~> (pc[t] = "idle")

\* A hook call waits for the Cell mutex in initialize while the closure of
\* an interact call of another thread runs with the mutex held.
C24_Witness ==
    \E t, u \in Threads :
        /\ pc[t] = "closure" /\ mutex = t
        /\ pc[u] = "update"
        /\ rwlock = RwLock_free

\* C25: one call of the hook asks the request guard for the configuration
\* at most once and calls establish at most once; a step that asked the guard
\* or called establish never leads back to an earlier point of the hook; and
\* a hook whose guard failed has returned after that one question, without
\* calling establish.
C25_HookAsksOnce ==
    /\ [](\A t \in Threads :
            /\ local[t].asked <= 1 /\ local[t].attempts <= 1
            /\ result[t].locals.asked <= 1 /\ result[t].locals.attempts <= 1
            /\ pc[t] \in {"on_request", "has_configuration", "guard"} => local[t].asked = 0
            /\ pc[t] \in {"on_request", "has_configuration", "guard", "initialize", "establish"}
                  => local[t].attempts = 0
            /\ (Finished(t, "on_request") /\ result[t].locals.guard = "Failure")
                  => (/\ result[t].res = Ok("()")
                      /\ result[t].locals.asked = 1
                      /\ result[t].locals.attempts = 0))
    /\ [][\A t \in Threads :
            /\ (pc[t] = "guard" /\ local'[t] # local[t]) => pc'[t] \in {"idle", "initialize"}
            /\ (pc[t] = "guard" /\ pc'[t] = "idle") => result'[t].locals.guard = "Failure"
            /\ (pc[t] = "establish" /\ pc'[t] # pc[t]) => pc'[t] \in {"idle", "update"}]_vars

\* The guard of one hook call failed and the call returned after asking
\* once; another hook call got the configuration and called establish once.
C25_Witness ==
    \E t, u \in Threads :
        /\ Finished(t, "on_request") /\ result[t].locals.guard = "Failure"
        /\ result[t].locals.asked = 1 /\ result[t].locals.attempts = 0
        /\ Finished(u, "on_request") /\ result[u].locals.guard = "Success"
        /\ result[u].locals.asked = 1 /\ result[u].locals.attempts = 1

\* C26: a == b holds exactly when a and b are the same variant, whatever
\* connection each points at; == is reflexive, symmetric and transitive.
C26_EqByVariant ==
    /\ cmp.stage \in {"pair", "chain"}
       => /\ cmp.ab = Bool_str(cmp.a.variant = cmp.b.variant)
          /\ cmp.aa = "true"
          /\ cmp.ab = cmp.ba
    /\ cmp.stage = "chain"
       => /\ cmp.bc = Bool_str(cmp.b.variant = cmp.c.variant)
          /\ (cmp.ab = "true" /\ cmp.bc = "true") => cmp.ac = "true"

\* Three Mysql values, not all pointing at the same connection, compared
\* equal in every order.
C26_Witness ==
    /\ cmp.stage = "chain"
    /\ cmp.a = [variant |-> "Mysql", conn |-> 1]
    /\ cmp.b = [variant |-> "Mysql", conn |-> 2]
    /\ cmp.c = [variant |-> "Mysql", conn |-> 1]
    /\ cmp.ab = "true" /\ cmp.ba = "true" /\ cmp.bc = "true" /\ cmp.ac = "true"

====
